---- MODULE Spec2Model ----
(***************************************************************************)
(* TNM staging workflow (src/workflow.py) with its four LLM agents         *)
(* (src/agents/*.py), the response normalizer (src/utils.py) and the       *)
(* pydantic result schemas (src/models.py).                                *)
(*                                                                         *)
(* Values are modelled as tagged records: Python None is Null, a str is    *)
(* Str(<<chunks>>) (a sequence of characters or of fixed phrases), a list  *)
(* is List(<<items>>) and a dict is a TLA+ function from keys to values.   *)
(* Only the schema fields that the workflow or a checked property reads    *)
(* are carried: stage, laterality, evidence, metastasis_sites,             *)
(* organ_systems_count, tnm_stage, overall_stage, tumor, nodes,            *)
(* metastasis, summary, clinical_stage_prefix.  The remaining fields       *)
(* (tumor_size_mm, location, invasion, separate_nodules, involved_nodes,   *)
(* confidence) are optional with defaults and are read nowhere.            *)
(***************************************************************************)
EXTENDS Integers, Sequences, FiniteSets, TLC

\* ------------------------------------------------------------------ bounds
\* Largest MAX_RETRIES setting explored (src/config.py default is 3).
MaxRetries == 3
\* The MAX_RETRIES setting of the runs that explore the retry loops in depth.
DeepRetries == 4
\* RETRY_DELAY settings explored, in whole seconds (src/config.py default 1.0).
RetryDelays == {1, 3}

\* ------------------------------------------------------------------ values
Null == [t |-> "null"]
Str(s) == [t |-> "str", s |-> s]
List(items) == [t |-> "list", items |-> items]
Dict(d) == [t |-> "dict", d |-> d]
Num(n) == [t |-> "num", n |-> n]

IsNull(v) == v.t = "null"
IsStr(v) == v.t = "str"
IsList(v) == v.t = "list"
IsDict(v) == v.t = "dict"
IsNum(v) == v.t = "num"

\* Python truthiness of a value (`if x:`).
Truthy(v) ==
    CASE v.t = "null" -> FALSE
      [] v.t = "str" -> v.s # <<>>
      [] v.t = "list" -> v.items # <<>>
      [] v.t = "dict" -> DOMAIN v.d # {}
      [] v.t = "num" -> v.n # 0

\* dict.get(key): the value, or None when the key is absent.
Get(v, key) == IF key \in DOMAIN v.d THEN v.d[key] ELSE Null

\* d[key] = val on a dict value.
Put(v, key, val) ==
    Dict([k \in DOMAIN v.d \cup {key} |-> IF k = key THEN val ELSE v.d[k]])

\* all([...]) over a sequence of values
All(vs) == \A i \in DOMAIN vs : Truthy(vs[i])

\* ------------------------------------------------------------------ str.upper
UpperChar(c) ==
    CASE c = "l" -> "L" [] c = "e" -> "E" [] c = "f" -> "F" [] c = "t" -> "T"
      [] c = "r" -> "R" [] c = "i" -> "I" [] c = "g" -> "G" [] c = "h" -> "H"
      [] OTHER -> c

Upper(v) == Str([i \in DOMAIN v.s |-> UpperChar(v.s[i])])

LEFT == Str(<<"l", "e", "f", "t">>)
RIGHT == Str(<<"r", "i", "g", "h", "t">>)

\* ------------------------------------------------------------------ normalizer
\* str(item) for the item kinds an evidence list can hold.
DigitChar(n) ==
    CASE n = 0 -> "0" [] n = 1 -> "1" [] n = 2 -> "2" [] n = 3 -> "3" [] n = 4 -> "4"
      [] n = 5 -> "5" [] n = 6 -> "6" [] n = 7 -> "7" [] n = 8 -> "8" [] OTHER -> "9"

StrOf(v) ==
    CASE v.t = "str" -> v.s
      [] v.t = "num" -> <<DigitChar(v.n)>>
      [] OTHER -> <<"None">>

RECURSIVE JoinWith(_, _)
\* sep.join(parts) for a sequence of chunk sequences
JoinWith(parts, sep) ==
    IF parts = <<>> THEN <<>>
    ELSE IF Len(parts) = 1 THEN parts[1]
    ELSE parts[1] \o sep \o JoinWith(Tail(parts), sep)

\* Mutant: the items are joined without dropping the empty ones.
JoinEvidence_KeepEmpty(items) ==
    Str(JoinWith([i \in DOMAIN items |-> StrOf(items[i])], <<" ">>))

\* " ".join(str(item) for item in value if item)
JoinEvidence(items) ==
    LET kept == SelectSeq(items, Truthy)
    IN  Str(JoinWith([i \in DOMAIN kept |-> StrOf(kept[i])], <<" ">>))

\* Mutant: None is replaced by an empty list instead of an empty string.
normalize_evidence_field_NullToList(data, field_name) ==
    IF field_name \in DOMAIN data.d
    THEN LET value == data.d[field_name]
         IN  IF IsList(value) THEN Put(data, field_name, JoinEvidence(value.items))
             ELSE IF IsNull(value) THEN Put(data, field_name, List(<<>>))
             ELSE data
    ELSE data

\* Mutant: a value that is neither a list nor None is turned into a string.
normalize_evidence_field_Stringify(data, field_name) ==
    IF field_name \in DOMAIN data.d
    THEN LET value == data.d[field_name]
         IN  IF IsList(value) THEN Put(data, field_name, JoinEvidence(value.items))
             ELSE IF IsNull(value) THEN Put(data, field_name, Str(<<>>))
             ELSE Put(data, field_name, Str(StrOf(value)))
    ELSE data

\* Mutant: an absent field is filled in with the empty string.
normalize_evidence_field_FillAbsent(data, field_name) ==
    IF field_name \in DOMAIN data.d
    THEN LET value == data.d[field_name]
         IN  IF IsList(value) THEN Put(data, field_name, JoinEvidence(value.items))
             ELSE IF IsNull(value) THEN Put(data, field_name, Str(<<>>))
             ELSE data
    ELSE Put(data, field_name, Str(<<>>))

normalize_evidence_field(data, field_name) ==
    IF field_name \in DOMAIN data.d
    THEN LET value == data.d[field_name]
         IN  IF IsList(value) THEN Put(data, field_name, JoinEvidence(value.items))
             ELSE IF IsNull(value) THEN Put(data, field_name, Str(<<>>))
             ELSE data
    ELSE data

NormalizeNested(data, key) ==
    IF key \in DOMAIN data.d /\ IsDict(data.d[key])
    THEN Put(data, key, normalize_evidence_field(data.d[key], "evidence"))
    ELSE data

normalize_agent_response(data) ==
    NormalizeNested(
        NormalizeNested(
            NormalizeNested(normalize_evidence_field(data, "evidence"), "tumor"),
            "nodes"),
        "metastasis")

\* ------------------------------------------------------------------ schemas
\* Each XErrors(d) is the set of field names pydantic reports as violated
\* when the model class X is constructed from the keyword arguments d.
MissingOrNotStr(d, key) == key \notin DOMAIN d.d \/ ~IsStr(d.d[key])

TStageErrors(d) ==
    {f \in {"stage", "evidence"} : MissingOrNotStr(d, f)}
    \cup {f \in {"laterality"} :
            /\ f \in DOMAIN d.d
            /\ ~IsNull(d.d[f])
            /\ d.d[f] \notin {LEFT, RIGHT}}

NStageErrors(d) == {f \in {"stage", "evidence"} : MissingOrNotStr(d, f)}

\* MetastasisSite: organ_system is the required string that is carried here.
SiteOk(v) == IsDict(v) /\ ~MissingOrNotStr(v, "organ_system")

MStageErrors(d) ==
    {f \in {"stage", "evidence"} : MissingOrNotStr(d, f)}
    \cup {f \in {"metastasis_sites"} :
            /\ f \in DOMAIN d.d
            /\ \/ ~IsList(d.d[f])
               \/ \E i \in DOMAIN d.d[f].items : ~SiteOk(d.d[f].items[i])}
    \cup {f \in {"organ_systems_count"} : f \in DOMAIN d.d /\ ~IsNum(d.d[f])}

NestedErrors(d, key, errs) ==
    IF key \notin DOMAIN d.d \/ ~IsDict(d.d[key]) THEN {key}
    ELSE IF errs # {} THEN {key} ELSE {}

TNMStagingErrors(d) ==
    {f \in {"tnm_stage", "overall_stage", "summary"} : MissingOrNotStr(d, f)}
    \cup NestedErrors(d, "tumor",
            IF "tumor" \in DOMAIN d.d /\ IsDict(d.d["tumor"])
            THEN TStageErrors(d.d["tumor"]) ELSE {})
    \cup NestedErrors(d, "nodes",
            IF "nodes" \in DOMAIN d.d /\ IsDict(d.d["nodes"])
            THEN NStageErrors(d.d["nodes"]) ELSE {})
    \cup NestedErrors(d, "metastasis",
            IF "metastasis" \in DOMAIN d.d /\ IsDict(d.d["metastasis"])
            THEN MStageErrors(d.d["metastasis"]) ELSE {})
    \cup {f \in {"clinical_stage_prefix"} : f \in DOMAIN d.d /\ ~IsStr(d.d[f])}

\* model_dump() of a validated instance: every field, defaults filled in.
TStageDump(d) ==
    Dict([stage |-> d.d["stage"],
          laterality |-> Get(d, "laterality"),
          evidence |-> d.d["evidence"]])

NStageDump(d) ==
    Dict([stage |-> d.d["stage"], evidence |-> d.d["evidence"]])

SiteDump(v) == Dict([organ_system |-> v.d["organ_system"]])

MStageDump(d) ==
    Dict([stage |-> d.d["stage"],
          metastasis_sites |->
              IF "metastasis_sites" \in DOMAIN d.d
              THEN List([i \in DOMAIN d.d["metastasis_sites"].items |->
                            SiteDump(d.d["metastasis_sites"].items[i])])
              ELSE List(<<>>),
          organ_systems_count |->
              IF "organ_systems_count" \in DOMAIN d.d
              THEN d.d["organ_systems_count"] ELSE Num(0),
          evidence |-> d.d["evidence"]])

TNMStagingDump(d) ==
    Dict([tnm_stage |-> d.d["tnm_stage"],
          overall_stage |-> d.d["overall_stage"],
          tumor |-> TStageDump(d.d["tumor"]),
          nodes |-> NStageDump(d.d["nodes"]),
          metastasis |-> MStageDump(d.d["metastasis"]),
          summary |-> d.d["summary"],
          clinical_stage_prefix |->
              IF "clinical_stage_prefix" \in DOMAIN d.d
              THEN d.d["clinical_stage_prefix"] ELSE Str(<<"c">>)])

\* ------------------------------------------------------------------ agents
Nodes == {"t_agent", "n_agent", "m_agent", "compiler"}

\* The name each agent uses for itself in its messages.
AgentLabel(a) ==
    CASE a = "t_agent" -> "T-Agent"
      [] a = "n_agent" -> "N-Agent"
      [] a = "m_agent" -> "M-Agent"
      [] a = "compiler" -> "Staging Compiler"

ModelName(a) ==
    CASE a = "t_agent" -> "TStageResult"
      [] a = "n_agent" -> "NStageResult"
      [] a = "m_agent" -> "MStageResult"
      [] a = "compiler" -> "TNMStaging"

SchemaErrors(a, d) ==
    CASE a = "t_agent" -> TStageErrors(d)
      [] a = "n_agent" -> NStageErrors(d)
      [] a = "m_agent" -> MStageErrors(d)
      [] a = "compiler" -> TNMStagingErrors(d)

ModelDump(a, d) ==
    CASE a = "t_agent" -> TStageDump(d)
      [] a = "n_agent" -> NStageDump(d)
      [] a = "m_agent" -> MStageDump(d)
      [] a = "compiler" -> TNMStagingDump(d)

\* The workflow-state key a node stores its agent's result under.
Slot(a) ==
    CASE a = "t_agent" -> "t_result"
      [] a = "n_agent" -> "n_result"
      [] a = "m_agent" -> "m_result"
      [] a = "compiler" -> "final_staging"

\* ------------------------------------------------------------------ exceptions
Exc(cls, msg) == [cls |-> cls, msg |-> msg]
NoExc == Exc("none", <<>>)

\* Field names in the order the message of a ValidationError lists them.
FieldOrder ==
    <<"tnm_stage", "overall_stage", "stage", "laterality", "tumor", "nodes",
      "metastasis", "metastasis_sites", "organ_systems_count", "evidence",
      "summary", "clinical_stage_prefix">>

ValidationError(a, errs) ==
    Exc("ValidationError",
        <<"validation errors for ", ModelName(a)>>
            \o SelectSeq(FieldOrder, LAMBDA f : f \in errs))

JSONDecodeError == Exc("JSONDecodeError", <<"Expecting value">>)
EmptyResponse == Exc("ValueError", <<"Empty response from Mistral API">>)
TransportError == Exc("SDKError", <<"API error occurred">>)
\* json.loads gave a value that is not a dict: .keys() (T-Agent) or ** fails.
NotAMapping(a) ==
    IF a = "t_agent"
    THEN Exc("AttributeError", <<"object has no attribute 'keys'">>)
    ELSE Exc("TypeError", <<"argument after ** must be a mapping">>)

InvalidJSON(a, e) ==
    Exc("ValueError", <<"Invalid JSON response from ", AgentLabel(a), ": ">> \o e.msg)

ValidationFailed(a, e) ==
    Exc("ValueError", <<AgentLabel(a), " validation error: ">> \o e.msg)

\* ------------------------------------------------------------------ requests
\* A message is a sequence of segments: fixed template text, single
\* characters of an interpolated string, the report text, or json.dumps of
\* a result.
Lit(s) == [k |-> "lit", v |-> Str(<<s>>)]
Chars(v) == [i \in DOMAIN v.s |-> [k |-> "chr", v |-> Str(<<v.s[i]>>)]]
Report(text) == [k |-> "report", v |-> text]
Json(v) == [k |-> "json", v |-> v]

LateralityDirective == Lit("TUMOR LATERALITY: ")
NoLateralityWarning ==
    Lit("WARNING: Tumor laterality was not provided. Please attempt to determine it from the report and use it for staging.")
Outro == Lit("Provide your analysis in JSON format as specified in the system prompt.")

TUserMessage(report_text) ==
    << Lit("Analyze the following PET-CT radiology report and determine the T-stage for the primary lung tumor."),
       Lit("REPORT TEXT:"), Report(report_text), Outro >>

\* NAgent.analyze, lines 31-61: the laterality read from the context and the
\* message built from it.
NLaterality(context) ==
    IF Truthy(context) /\ "tumor_laterality" \in DOMAIN context.d
    THEN context.d["tumor_laterality"] ELSE Null

\* Mutant: without a laterality the warning comes after the report text.
NUserMessage_WarnAfterReport(report_text, context) ==
    LET laterality == NLaterality(context)
        intro == Lit("Analyze the following PET-CT radiology report and determine the N-stage for lymph node involvement.")
    IN  IF Truthy(laterality)
        THEN <<intro, LateralityDirective>> \o Chars(Upper(laterality))
             \o << Lit("This is CRITICAL for determining ipsilateral vs contralateral lymph nodes."),
                   Lit("REPORT TEXT:"), Report(report_text), Outro >>
        ELSE << intro, Lit("REPORT TEXT:"), Report(report_text),
                NoLateralityWarning, Outro >>

NUserMessage(report_text, context) ==
    LET laterality == NLaterality(context)
        intro == Lit("Analyze the following PET-CT radiology report and determine the N-stage for lymph node involvement.")
    IN  IF Truthy(laterality)
        THEN <<intro, LateralityDirective>> \o Chars(Upper(laterality))
             \o << Lit("This is CRITICAL for determining ipsilateral vs contralateral lymph nodes."),
                   Lit("REPORT TEXT:"), Report(report_text), Outro >>
        ELSE << intro, NoLateralityWarning,
                Lit("REPORT TEXT:"), Report(report_text), Outro >>

MUserMessage(report_text) ==
    << Lit("Analyze the following PET-CT radiology report and determine the M-stage for distant metastases."),
       Lit("Scan the ENTIRE report including all anatomic regions (thorax, abdomen, bones, brain if mentioned)."),
       Lit("REPORT TEXT:"), Report(report_text), Outro >>

CompilerUserMessage(t_result, n_result, m_result) ==
    << Lit("Compile the final TNM staging from the following individual component analyses:"),
       Lit("T-STAGE ANALYSIS:"), Json(t_result),
       Lit("N-STAGE ANALYSIS:"), Json(n_result),
       Lit("M-STAGE ANALYSIS:"), Json(m_result),
       Lit("Tasks:"),
       Lit("Provide your complete staging result in JSON format as specified in the system prompt.") >>

UserMessage(a, report_text, context) ==
    CASE a = "t_agent" -> TUserMessage(report_text)
      [] a = "n_agent" -> NUserMessage(report_text, context)
      [] a = "m_agent" -> MUserMessage(report_text)
      [] a = "compiler" ->
            CompilerUserMessage(context.d["t_result"], context.d["n_result"],
                                context.d["m_result"])

\* msg has sub as a contiguous run of segments.
Contains(msg, sub) ==
    \E i \in 1..(Len(msg) - Len(sub) + 1) : SubSeq(msg, i, i + Len(sub) - 1) = sub

\* Position of the first segment equal to seg, 0 when there is none.
IndexOf(msg, seg) ==
    IF \E i \in DOMAIN msg : msg[i] = seg
    THEN CHOOSE i \in DOMAIN msg : msg[i] = seg /\ \A j \in 1..(i - 1) : msg[j] # seg
    ELSE 0

\* ------------------------------------------------------------------ LLM service
\* What client.chat.complete can hand back as message content: text that
\* json.loads rejects, or text that json.loads turns into doc.
Malformed == [wellformed |-> FALSE, doc |-> Null]
TextOf(doc) == [wellformed |-> TRUE, doc |-> doc]

Ev == Str(<<"e">>)

TDocs ==
    { Dict([stage |-> Str(<<"T2a">>), laterality |-> RIGHT, evidence |-> Ev]),
      Dict([stage |-> Str(<<"T1c">>), laterality |-> LEFT,
            evidence |-> List(<<Str(<<"a">>), Str(<<>>), Str(<<"b">>)>>)]),
      Dict([stage |-> Str(<<"T3">>), laterality |-> Null, evidence |-> Ev]),
      Dict([stage |-> Str(<<"T4">>), evidence |-> Null]),
      Dict([stage |-> Str(<<"T2a">>), laterality |-> RIGHT]),
      Dict([stage |-> Str(<<"T2a">>), laterality |-> Upper(RIGHT), evidence |-> Ev]) }

NDocs ==
    { Dict([stage |-> Str(<<"N2b">>), evidence |-> Ev]),
      Dict([stage |-> Str(<<"N9">>), evidence |-> List(<<Str(<<"a">>)>>)]),
      Dict([stage |-> Str(<<"N1">>)]) }

SiteIn(organ) == Dict([organ_system |-> Str(<<organ>>)])

MDocs ==
    { Dict([stage |-> Str(<<"M0">>), evidence |-> Ev]),
      Dict([stage |-> Str(<<"M1c2">>),
            metastasis_sites |-> List(<<SiteIn("bone"), SiteIn("liver"), SiteIn("bone")>>),
            organ_systems_count |-> Num(3),
            evidence |-> Ev]),
      Dict([stage |-> Str(<<"M1b">>), evidence |-> Num(5)]) }

\* The results the Compiler's request carries, in T, N, M order.  The
\* service writes the components of its answer itself: it may repeat the
\* ones it was sent, or give a tumor component with another stage.
RequestResults(msg) ==
    LET js == SelectSeq(msg, LAMBDA seg : seg.k = "json")
    IN  [i \in DOMAIN js |-> js[i].v]

CompilerDocs(msg) ==
    LET in == RequestResults(msg)
        tnm == Str(in[1].d["stage"].s \o in[2].d["stage"].s \o in[3].d["stage"].s)
    IN  { Dict([tnm_stage |-> tnm, overall_stage |-> Str(<<"Stage IIIA">>),
                tumor |-> in[1], nodes |-> in[2], metastasis |-> in[3],
                summary |-> Str(<<"s">>)]),
          Dict([tnm_stage |-> tnm, overall_stage |-> Str(<<"Stage IIIA">>),
                tumor |-> in[1], nodes |-> in[2], metastasis |-> in[3]]),
          Dict([tnm_stage |-> Str(<<"T1a">> \o in[2].d["stage"].s \o in[3].d["stage"].s),
                overall_stage |-> Str(<<"Stage IIIA">>),
                tumor |-> Put(in[1], "stage", Str(<<"T1a">>)),
                nodes |-> in[2], metastasis |-> in[3],
                summary |-> Str(<<"s">>)]) }

\* Reports whose findings are plain: the service answers a stage agent's
\* request about one of them with one reading only.
REPORT_C == Str(<<"PET-CT report C">>)
REPORT_D == Str(<<"PET-CT report D">>)
PlainReports == {REPORT_C, REPORT_D}

PlainDocs(a, report_text) ==
    IF report_text = REPORT_C
    THEN CASE a = "t_agent" ->
                {Dict([stage |-> Str(<<"T2a">>), laterality |-> RIGHT, evidence |-> Ev])}
           [] a = "n_agent" -> {Dict([stage |-> Str(<<"N2b">>), evidence |-> Ev])}
           [] a = "m_agent" -> {Dict([stage |-> Str(<<"M0">>), evidence |-> Ev])}
    ELSE CASE a = "t_agent" ->
                {Dict([stage |-> Str(<<"T1c">>), laterality |-> LEFT,
                       evidence |-> List(<<Str(<<"a">>), Str(<<>>), Str(<<"b">>)>>)])}
           [] a = "n_agent" -> {Dict([stage |-> Str(<<"N0">>), evidence |-> Ev])}
           [] a = "m_agent" -> {Dict([stage |-> Str(<<"M1a">>), evidence |-> Ev])}

\* The report text a stage agent's request carries.
ReportOf(msg) ==
    LET rs == SelectSeq(msg, LAMBDA seg : seg.k = "report")
    IN  IF rs = <<>> THEN Null ELSE rs[1].v

\* JSON documents the service may answer an agent's request with; a JSON
\* array stands for every valid JSON text that is not an object.
LLMDocs(a, msg) ==
    {List(<<>>)} \cup
    IF a # "compiler" /\ ReportOf(msg) \in PlainReports
    THEN PlainDocs(a, ReportOf(msg))
    ELSE CASE a = "t_agent" -> TDocs
           [] a = "n_agent" -> NDocs
           [] a = "m_agent" -> MDocs
           [] a = "compiler" -> CompilerDocs(msg)

\* ------------------------------------------------------------------ state
VARIABLES
    runs,           \* the runs (calls of run_tnm_staging_workflow) in the system
    settings,       \* Settings: max_retries, retry_delay (read-only)
    args,           \* per run: report_text, report_id, patient_id passed to run
    rpc,            \* per run: position in TNMWorkflow.run
    state,          \* per run: the graph's TNMWorkflowState
    running,        \* per run: the nodes of the current graph step
    node_out,       \* per run and node: the state the node returned in this step
    agent,          \* per run and node: the agent's analyze call in progress
    route,          \* per run: what _should_continue_after_agents returned
    edge_state,     \* per run: the state dict _should_continue_after_agents was given
    result,         \* per run: the dict run returned
    node_runs,      \* per run and node: times the node function was executed
    analyze_calls,  \* per run and node: times the agent's analyze was invoked
    produced,       \* per run and node: what the agent's analyze returned
    outcome,        \* per run and node: how analyze ended: returned or raised
    response_text,  \* normalizer alone: the JSON text of an LLM answer
    result_dict,    \* normalizer alone: the dict json.loads made of it
    normalized      \* normalizer alone: what each successive normalize call returned

vars == << runs, settings, args, rpc, state, running, node_out, agent, route,
           edge_state, result, node_runs, analyze_calls, produced, outcome,
           response_text, result_dict, normalized >>

\* The arguments a caller may pass to run: report_id and patient_id are
\* optional and default to None.
RunArgs ==
    { [report_text |-> Str(<<"PET-CT report A">>), report_id |-> Null,
       patient_id |-> Null],
      [report_text |-> Str(<<"PET-CT report A">>), report_id |-> Str(<<"R-1">>),
       patient_id |-> Str(<<"P-1">>)],
      [report_text |-> Str(<<"PET-CT report B">>), report_id |-> Str(<<"R-2">>),
       patient_id |-> Null] }

EmptyDict == Dict([k \in {} |-> Null])
Bool(b) == [t |-> "bool", b |-> b]
END == "__end__"

AgentIdle ==
    [pc |-> "idle", attempt |-> 0, llm_attempt |-> 0, llm_calls |-> 0,
     parse_calls |-> 0, validate_calls |-> 0, sleeps |-> <<>>, llm_sleeps |-> <<>>,
     user_message |-> <<>>, ret |-> Null, exc |-> NoExc, kinds |-> {}]

InitWith(retries, arguments) ==
    /\ settings \in [max_retries : retries, retry_delay : RetryDelays]
    /\ args \in [runs -> arguments]
    /\ rpc = [r \in runs |-> "idle"]
    /\ state = [r \in runs |-> Null]
    /\ running = [r \in runs |-> {}]
    /\ node_out = [r \in runs |-> [a \in Nodes |-> Null]]
    /\ agent = [r \in runs |-> [a \in Nodes |-> AgentIdle]]
    /\ route = [r \in runs |-> "none"]
    /\ edge_state = [r \in runs |-> Null]
    /\ result = [r \in runs |-> Null]
    /\ node_runs = [r \in runs |-> [a \in Nodes |-> 0]]
    /\ analyze_calls = [r \in runs |-> [a \in Nodes |-> 0]]
    /\ produced = [r \in runs |-> [a \in Nodes |-> Null]]
    /\ outcome = [r \in runs |-> [a \in Nodes |-> "none"]]

\* One run, every MAX_RETRIES setting up to MaxRetries.
Init ==
    /\ runs = {"r1"}
    /\ InitWith(0..MaxRetries, RunArgs)
    /\ response_text = Null
    /\ result_dict = Null
    /\ normalized = <<>>

\* One run with MAX_RETRIES = DeepRetries, for the waits of long retry loops.
InitDeep ==
    /\ runs = {"r1"}
    /\ InitWith({DeepRetries},
                {x \in RunArgs : x.report_id = Null})
    /\ response_text = Null
    /\ result_dict = Null
    /\ normalized = <<>>

\* ------------------------------------------------------------------ workflow
\* Mutant: every run starts from the arguments of one and the same run.
InitialState_Shared(a) ==
    LET first == args[CHOOSE r \in runs : TRUE]
    IN  Dict([report_text |-> first.report_text, report_id |-> first.report_id,
              patient_id |-> first.patient_id, t_result |-> Null, n_result |-> Null,
              m_result |-> Null, final_staging |-> Null, error |-> Null])

\* run, lines 172-181
InitialState(a) ==
    Dict([report_text |-> a.report_text, report_id |-> a.report_id,
          patient_id |-> a.patient_id, t_result |-> Null, n_result |-> Null,
          m_result |-> Null, final_staging |-> Null, error |-> Null])

\* _build_graph: set_entry_point
EntryPoint == "t_agent"

\* Mutant: the guards test a key that is always set instead of the results.
Components_WrongKey(st) == <<Get(st, "report_text")>>

\* The components _compiler_node and _should_continue_after_agents test.
Components(st) == <<Get(st, "t_result"), Get(st, "n_result"), Get(st, "m_result")>>

\* _should_continue_after_agents: the node it routes to.
should_continue_after_agents(st) ==
    IF Truthy(Get(st, "error")) THEN END
    ELSE IF All(Components(st)) THEN "compiler"
    ELSE END

\* _should_continue_after_agents: the dict it was handed, after its own
\* assignment to state["error"] (line 116).  The graph gives a conditional
\* edge a snapshot read from the channels; only what a node returns is
\* written back to them.
EdgeStateAfter(st) ==
    IF ~Truthy(Get(st, "error")) /\ ~All(Components(st))
    THEN Put(st, "error", Str(<<"Incomplete staging results">>))
    ELSE st

\* Mutant: the Metastasis node is wired to the Tumor node as well, so that it
\* runs in the same step as the Node node.
Successors_FanOut(a, st) ==
    CASE a = "t_agent" -> {"n_agent", "m_agent"}
      [] a = "n_agent" -> {}
      [] a = "m_agent" -> {should_continue_after_agents(st)} \ {END}
      [] a = "compiler" -> {}

\* Mutant: the graph ends as soon as a node has recorded an error.
Successors_StopOnError(a, st) ==
    IF Truthy(Get(st, "error")) THEN {}
    ELSE CASE a = "t_agent" -> {"n_agent"}
           [] a = "n_agent" -> {"m_agent"}
           [] a = "m_agent" -> {should_continue_after_agents(st)} \ {END}
           [] a = "compiler" -> {}

\* Mutant: a node whose agent failed is run again.
Successors_RetryOnError(a, st) ==
    IF Truthy(Get(st, "error")) /\ a # "compiler" THEN {a}
    ELSE CASE a = "t_agent" -> {"n_agent"}
           [] a = "n_agent" -> {"m_agent"}
           [] a = "m_agent" -> {should_continue_after_agents(st)} \ {END}
           [] a = "compiler" -> {}

\* _build_graph: the nodes that follow node a when the state is st.
Successors(a, st) ==
    CASE a = "t_agent" -> {"n_agent"}
      [] a = "n_agent" -> {"m_agent"}
      [] a = "m_agent" -> {should_continue_after_agents(st)} \ {END}
      [] a = "compiler" -> {}

\* Mutant: the laterality of the Tumor result is not put in the context.
NContext_Dropped(st) == EmptyDict

\* The context argument each node passes to its agent's analyze.
NContext(st) ==
    IF Truthy(Get(st, "t_result"))
    THEN LET laterality == Get(st.d["t_result"], "laterality")
         IN  IF Truthy(laterality)
             THEN Dict([tumor_laterality |-> laterality]) ELSE EmptyDict
    ELSE EmptyDict

NodeContext(a, st) ==
    CASE a = "n_agent" -> NContext(st)
      [] a = "compiler" ->
            Dict([t_result |-> st.d["t_result"], n_result |-> st.d["n_result"],
                  m_result |-> st.d["m_result"]])
      [] OTHER -> Null

\* Mutant: the except branch also stores the message as the final staging.
NodeError_StoresMessage(a, st, e) ==
    Put(Put(st, "error", Str(<<AgentLabel(a), " error: ">> \o e.msg)),
        "final_staging", Str(e.msg))

\* Mutant: the except branch also clears the Tumor result.
NodeError_DropsResults(a, st, e) ==
    Put(Put(st, "error", Str(<<AgentLabel(a), " error: ">> \o e.msg)),
        "t_result", Null)

\* Mutant: the node swallows the exception without recording it.
NodeError_Swallowed(a, st, e) == st

\* The except branch of a node: state["error"] = f"<label> error: {e}".
NodeError(a, st, e) ==
    Put(st, "error", Str(<<AgentLabel(a), " error: ">> \o e.msg))

\* The try branch of a node: state[slot] = result.
NodeStore(a, st, value) == Put(st, Slot(a), value)

MissingComponents ==
    Exc("ValueError", <<"Missing one or more staging components (T/N/M)">>)

\* ------------------------------------------------------------------ retry loops
\* Mutant: the linear wait of call_llm used in analyze.
BackoffDelay_Linear(retry_delay, attempt) == retry_delay * (attempt + 1)

\* The wait of an agent's analyze loop after its attempt (0-based) failed.
BackoffDelay(retry_delay, attempt) == retry_delay * (2 ^ attempt)

\* The wait of call_llm after its attempt (0-based) failed.
LLMRetryDelay(retry_delay, attempt) == retry_delay * (attempt + 1)

\* Mutant: no attempt is taken to have a successor.
AttemptsRemain_Never(attempt, max_retries) == FALSE

\* Mutant: off by one, the last attempt is taken to have a successor.
AttemptsRemain_OffByOne(attempt, max_retries) == attempt < max_retries

\* `attempt < max_retries - 1` in the except branches of analyze.
AttemptsRemain(attempt, max_retries) == attempt < max_retries - 1

\* `attempt == max_retries - 1` in the except branch of call_llm.
LastLLMAttempt(attempt, max_retries) == attempt = max_retries - 1

\* Mutant: the loop never gives up: after its last attempt it waits and
\* makes that attempt again.
AnalyzeExcept_NeverGivesUp(rec, raised) ==
    [rec EXCEPT !.sleeps = Append(@, BackoffDelay(settings.retry_delay, rec.attempt)),
                !.attempt = IF AttemptsRemain(rec.attempt, settings.max_retries)
                            THEN @ + 1 ELSE @,
                !.llm_attempt = 0,
                !.llm_sleeps = <<>>]

\* Mutant: the loop waits once more before it raises.
AnalyzeExcept_WaitsBeforeRaise(rec, raised) ==
    IF AttemptsRemain(rec.attempt, settings.max_retries)
    THEN [rec EXCEPT !.sleeps = Append(@, BackoffDelay(settings.retry_delay, rec.attempt)),
                     !.attempt = @ + 1,
                     !.llm_attempt = 0,
                     !.llm_sleeps = <<>>,
                     !.pc = IF rec.attempt + 1 < settings.max_retries
                            THEN "call" ELSE "returned"]
    ELSE [rec EXCEPT !.sleeps = Append(@, BackoffDelay(settings.retry_delay, rec.attempt)),
                     !.pc = "raised", !.exc = raised]

\* Mutant: the loop goes round again at once, without waiting.
AnalyzeExcept_NoWait(rec, raised) ==
    IF AttemptsRemain(rec.attempt, settings.max_retries)
    THEN [rec EXCEPT !.attempt = @ + 1,
                     !.llm_attempt = 0,
                     !.llm_sleeps = <<>>,
                     !.pc = IF rec.attempt + 1 < settings.max_retries
                            THEN "call" ELSE "returned"]
    ELSE [rec EXCEPT !.pc = "raised", !.exc = raised]

\* An except branch of analyze's loop: wait and go round again, or raise.
\* `continue` then meets the head of `for attempt in range(max_retries)`:
\* with the range used up the function ends and returns None.
AnalyzeExcept(rec, raised) ==
    IF AttemptsRemain(rec.attempt, settings.max_retries)
    THEN [rec EXCEPT !.sleeps = Append(@, BackoffDelay(settings.retry_delay, rec.attempt)),
                     !.attempt = @ + 1,
                     !.llm_attempt = 0,
                     !.llm_sleeps = <<>>,
                     !.pc = IF rec.attempt + 1 < settings.max_retries
                            THEN "call" ELSE "returned"]
    ELSE [rec EXCEPT !.pc = "raised", !.exc = raised]

\* json.loads(None), after call_llm's loop ended without a return.
NoneIsNotJSON == Exc("TypeError", <<"the JSON object must be str, bytes or bytearray, not NoneType">>)

\* The except branch of call_llm's loop: re-raise into analyze, or wait and
\* invoke the service again.
CallLLMExcept(rec, e) ==
    IF LastLLMAttempt(rec.llm_attempt, settings.max_retries)
    THEN AnalyzeExcept(rec, e)
    ELSE LET waited == [rec EXCEPT !.llm_sleeps =
                            Append(@, LLMRetryDelay(settings.retry_delay, rec.llm_attempt)),
                                   !.llm_attempt = @ + 1]
         IN  IF rec.llm_attempt + 1 < settings.max_retries
             THEN waited
             ELSE AnalyzeExcept(waited, NoneIsNotJSON)

\* Mutant: a valid object does not end the loop while attempts remain.
AnalyzeText_KeepsTrying(a, rec, text) ==
    IF ~text.wellformed
    THEN AnalyzeExcept(rec, InvalidJSON(a, JSONDecodeError))
    ELSE IF ~IsDict(text.doc)
    THEN AnalyzeExcept(rec, NotAMapping(a))
    ELSE LET normalized_dict == normalize_agent_response(text.doc)
             errs == SchemaErrors(a, normalized_dict)
             validated == [rec EXCEPT !.validate_calls = @ + 1]
         IN  IF errs = {}
             THEN IF AttemptsRemain(rec.attempt, settings.max_retries)
                  THEN [validated EXCEPT !.attempt = @ + 1, !.llm_attempt = 0,
                                         !.llm_sleeps = <<>>]
                  ELSE [validated EXCEPT !.pc = "returned",
                                         !.ret = ModelDump(a, normalized_dict)]
             ELSE AnalyzeExcept(validated, ValidationFailed(a, ValidationError(a, errs)))

\* analyze after call_llm returned text: json.loads, normalize, validate.
AnalyzeText(a, rec, text) ==
    IF ~text.wellformed
    THEN AnalyzeExcept(rec, InvalidJSON(a, JSONDecodeError))
    ELSE IF ~IsDict(text.doc)
    THEN AnalyzeExcept(rec, NotAMapping(a))
    ELSE LET normalized_dict == normalize_agent_response(text.doc)
             errs == SchemaErrors(a, normalized_dict)
             validated == [rec EXCEPT !.validate_calls = @ + 1]
         IN  IF errs = {}
             THEN [validated EXCEPT !.pc = "returned",
                                    !.ret = ModelDump(a, normalized_dict)]
             ELSE AnalyzeExcept(validated, ValidationFailed(a, ValidationError(a, errs)))

\* The kinds of answer seen so far in one analyze call: none, one kind only,
\* or a mixture.
AddKind(kinds, k) == IF kinds \subseteq {k} THEN {k} ELSE {"mixed"}

Kind(a, text) ==
    IF ~text.wellformed THEN "malformed"
    ELSE IF ~IsDict(text.doc) THEN "not_object"
    ELSE IF a # "compiler" /\ "evidence" \notin DOMAIN text.doc.d THEN "no_evidence"
    ELSE IF SchemaErrors(a, normalize_agent_response(text.doc)) = {} THEN "valid"
    ELSE "invalid"

\* ------------------------------------------------------------------ actions
\* run is called: the initial state is built and graph.invoke starts.
RunStart(r) ==
    /\ rpc[r] = "idle"
    /\ rpc' = [rpc EXCEPT ![r] = "invoke"]
    /\ state' = [state EXCEPT ![r] = InitialState(args[r])]
    /\ running' = [running EXCEPT ![r] = {EntryPoint}]
    /\ UNCHANGED << response_text, result_dict, normalized, runs, settings, args, node_out, agent, route, edge_state,
                    result, node_runs, analyze_calls, produced, outcome >>

\* A node function starts: up to and including the entry of its agent's
\* analyze loop (or the node's own early failure).
NodeEnter(r, a) ==
    /\ rpc[r] = "invoke"
    /\ a \in running[r]
    /\ node_out[r][a] = Null
    /\ agent[r][a].pc = "idle"
    /\ node_runs' = [node_runs EXCEPT ![r][a] = @ + 1]
    /\ IF a = "compiler" /\ ~All(Components(state[r]))
       THEN /\ node_out' = [node_out EXCEPT ![r][a] =
                                NodeError(a, state[r], MissingComponents)]
            /\ UNCHANGED << agent, analyze_calls >>
       ELSE /\ analyze_calls' = [analyze_calls EXCEPT ![r][a] = @ + 1]
            /\ agent' = [agent EXCEPT ![r][a] =
                  [AgentIdle EXCEPT
                     !.pc = IF settings.max_retries > 0 THEN "call" ELSE "returned",
                     !.user_message =
                         UserMessage(a, state[r].d["report_text"],
                                     NodeContext(a, state[r]))]]
            /\ UNCHANGED node_out
    /\ UNCHANGED << response_text, result_dict, normalized, runs, settings, args, rpc, state, running, route,
                    edge_state, result, produced, outcome >>

InCall(r, a) ==
    /\ rpc[r] = "invoke"
    /\ a \in running[r]
    /\ agent[r][a].pc = "call"

LLMFrame ==
    UNCHANGED << response_text, result_dict, normalized, runs, settings, args, rpc, state, running, node_out, route,
                 edge_state, result, node_runs, analyze_calls, produced, outcome >>

\* client.chat.complete raises (network, auth, quota).
LLMRaises(r, a) ==
    /\ InCall(r, a)
    /\ agent' = [agent EXCEPT ![r][a] =
          CallLLMExcept([@ EXCEPT !.llm_calls = @ + 1,
                                  !.kinds = AddKind(@, "transport")],
                        TransportError)]
    /\ LLMFrame

\* Mutant: the empty content is returned to analyze and handed to json.loads.
LLMReturnsEmpty_Parsed(r, a) ==
    /\ InCall(r, a)
    /\ agent' = [agent EXCEPT ![r][a] =
          AnalyzeText(a, [@ EXCEPT !.llm_calls = @ + 1,
                                   !.parse_calls = @ + 1,
                                   !.kinds = AddKind(@, "empty")],
                      Malformed)]
    /\ LLMFrame

\* client.chat.complete returns a message with empty content.
LLMReturnsEmpty(r, a) ==
    /\ InCall(r, a)
    /\ agent' = [agent EXCEPT ![r][a] =
          CallLLMExcept([@ EXCEPT !.llm_calls = @ + 1,
                                  !.kinds = AddKind(@, "empty")],
                        EmptyResponse)]
    /\ LLMFrame

\* client.chat.complete returns text that is not JSON.
LLMReturnsMalformed(r, a) ==
    /\ InCall(r, a)
    /\ agent' = [agent EXCEPT ![r][a] =
          AnalyzeText(a, [@ EXCEPT !.llm_calls = @ + 1,
                                   !.parse_calls = @ + 1,
                                   !.kinds = AddKind(@, Kind(a, Malformed))],
                      Malformed)]
    /\ LLMFrame

\* client.chat.complete returns JSON text.
LLMReturnsJSON(r, a) ==
    /\ InCall(r, a)
    /\ \E doc \in LLMDocs(a, agent[r][a].user_message) :
          agent' = [agent EXCEPT ![r][a] =
              AnalyzeText(a, [@ EXCEPT !.llm_calls = @ + 1,
                                       !.parse_calls = @ + 1,
                                       !.kinds = AddKind(@, Kind(a, TextOf(doc)))],
                          TextOf(doc))]
    /\ LLMFrame

\* analyze has returned or raised: the node stores the result or the error
\* in its state dict and returns it.
NodeReturn(r, a) ==
    /\ rpc[r] = "invoke"
    /\ a \in running[r]
    /\ agent[r][a].pc \in {"returned", "raised"}
    /\ node_out' = [node_out EXCEPT ![r][a] =
          IF agent[r][a].pc = "returned"
          THEN NodeStore(a, state[r], agent[r][a].ret)
          ELSE NodeError(a, state[r], agent[r][a].exc)]
    /\ produced' = [produced EXCEPT ![r][a] =
          IF agent[r][a].pc = "returned" THEN agent[r][a].ret ELSE @]
    /\ outcome' = [outcome EXCEPT ![r][a] = agent[r][a].pc]
    /\ agent' = [agent EXCEPT ![r][a] = AgentIdle]
    /\ UNCHANGED << response_text, result_dict, normalized, runs, settings, args, rpc, state, running, route,
                    edge_state, result, node_runs, analyze_calls >>

\* run, lines 187-205: the dict returned once graph.invoke has returned.
RunResult(final_state, a) ==
    IF Truthy(Get(final_state, "error"))
    THEN Dict([success |-> Bool(FALSE),
               error |-> final_state.d["error"],
               partial_results |->
                   Dict([t_result |-> Get(final_state, "t_result"),
                         n_result |-> Get(final_state, "n_result"),
                         m_result |-> Get(final_state, "m_result")])])
    ELSE Dict([success |-> Bool(TRUE),
               staging |-> final_state.d["final_staging"],
               report_id |-> a.report_id,
               patient_id |-> a.patient_id])

\* run, lines 207-212: the dict returned when graph.invoke raised e.
WorkflowError(e) ==
    Dict([success |-> Bool(FALSE), error |-> Str(<<"Workflow error: ">> \o e.msg)])

\* Two nodes of one step wrote the same channel of the graph state.
InvalidUpdateError ==
    Exc("InvalidUpdateError", <<"Can receive only one value per step">>)
\* Any other exception escaping graph.invoke.
UnexpectedError == Exc("RuntimeError", <<"unexpected failure">>)

\* What is left of a run once graph.invoke has raised: the graph's state is
\* gone, only run's own locals remain.
Abandon(r, e) ==
    /\ rpc' = [rpc EXCEPT ![r] = "done"]
    /\ result' = [result EXCEPT ![r] = WorkflowError(e)]
    /\ state' = [state EXCEPT ![r] = Null]
    /\ running' = [running EXCEPT ![r] = {}]
    /\ node_out' = [node_out EXCEPT ![r] = [a \in Nodes |-> Null]]
    /\ agent' = [agent EXCEPT ![r] = [a \in Nodes |-> AgentIdle]]

\* Every node of the current step has returned: the graph writes what they
\* returned to its state and follows the edges.
StepCommit(r) ==
    /\ rpc[r] = "invoke"
    /\ running[r] # {}
    /\ \A a \in running[r] : node_out[r][a] # Null
    /\ IF Cardinality(running[r]) > 1
       THEN /\ Abandon(r, InvalidUpdateError)
            /\ UNCHANGED << route, edge_state >>
       ELSE LET a == CHOOSE n \in running[r] : TRUE
                st == node_out[r][a]
            IN  /\ state' = [state EXCEPT ![r] = st]
                /\ running' = [running EXCEPT ![r] = Successors(a, st)]
                /\ node_out' = [node_out EXCEPT ![r][a] = Null]
                /\ IF a = "m_agent"
                   THEN /\ route' = [route EXCEPT ![r] = should_continue_after_agents(st)]
                        /\ edge_state' = [edge_state EXCEPT ![r] = EdgeStateAfter(st)]
                   ELSE UNCHANGED << route, edge_state >>
                /\ UNCHANGED << rpc, result, agent >>
    /\ UNCHANGED << response_text, result_dict, normalized, runs, settings, args, node_runs, analyze_calls, produced, outcome >>

\* graph.invoke returns the final state and run builds its result.
RunReturn(r) ==
    /\ rpc[r] = "invoke"
    /\ running[r] = {}
    /\ rpc' = [rpc EXCEPT ![r] = "done"]
    /\ result' = [result EXCEPT ![r] = RunResult(state[r], args[r])]
    /\ UNCHANGED << response_text, result_dict, normalized, runs, settings, args, state, running, node_out, agent,
                    route, edge_state, node_runs, analyze_calls, produced, outcome >>

\* graph.invoke raises an exception of its own.
GraphInvokeRaises(r) ==
    /\ rpc[r] = "invoke"
    /\ Abandon(r, UnexpectedError)
    /\ UNCHANGED << response_text, result_dict, normalized, runs, settings, args, route, edge_state, node_runs,
                    analyze_calls, produced, outcome >>

Next ==
    \E r \in runs :
        \/ RunStart(r)
        \/ \E a \in Nodes : NodeEnter(r, a)
        \/ \E a \in Nodes : LLMRaises(r, a)
        \/ \E a \in Nodes : LLMReturnsEmpty(r, a)
        \/ \E a \in Nodes : LLMReturnsMalformed(r, a)
        \/ \E a \in Nodes : LLMReturnsJSON(r, a)
        \/ \E a \in Nodes : NodeReturn(r, a)
        \/ StepCommit(r)
        \/ RunReturn(r)
        \/ GraphInvokeRaises(r)

Spec == Init /\ [][Next]_vars

SpecDeep == InitDeep /\ [][Next]_vars

\* One run in which the interpreter keeps executing run, the graph and the
\* agents' loops, and every LLM invocation eventually returns or raises:
\* whenever a step of the run is possible, a step is eventually taken.
SpecLive == Init /\ [][Next]_vars /\ WF_vars(Next)

\* The MAX_RETRIES setting of the systems with two runs.
PairRetries == 1

\* Two runs at once, each a call of run_tnm_staging_workflow and so each
\* with a TNMWorkflow, agents and graph state of its own; one is about
\* report C, the other about report D.
InitPair ==
    /\ runs = {"r1", "r2"}
    /\ InitWith({PairRetries},
                { [report_text |-> REPORT_C, report_id |-> Str(<<"R-3">>),
                   patient_id |-> Null],
                  [report_text |-> REPORT_D, report_id |-> Str(<<"R-4">>),
                   patient_id |-> Str(<<"P-4">>)] })
    /\ args["r1"].report_text = REPORT_C
    /\ args["r2"].report_text = REPORT_D
    /\ settings.retry_delay = 1
    /\ response_text = Null
    /\ result_dict = Null
    /\ normalized = <<>>

SpecPair == InitPair /\ [][Next]_vars

\* ------------------------------------------------------------------ normalizer alone
\* Most times normalize_agent_response is applied in a row to one object.
MaxApplications == 2

\* Values json.loads can give the evidence key: null, strings, arrays (of
\* strings, of mixed items), a number, an object.
EvidenceValues ==
    { Null, Str(<<>>), Ev, List(<<>>),
      List(<<Str(<<"a">>), Str(<<>>), Str(<<"b">>)>>),
      List(<<Num(5), Null, Str(<<"b">>)>>),
      List(<<Str(<<>>), Null>>),
      Num(5), EmptyDict }

\* Values json.loads can give the evidence key of a nested object.
NestedEvidenceValues ==
    { Null, Ev, List(<<Str(<<"a">>), Str(<<>>), Str(<<"b">>)>>) }

\* base, and base with its evidence key set to each of values.
WithEvidence(base, values) ==
    {base} \cup {Put(base, "evidence", v) : v \in values}

\* base, and base with key set to a string or to an object whose evidence
\* key is absent or one of NestedEvidenceValues.
WithNested(bases, key) ==
    bases
    \cup {Put(b, key, Str(<<"x">>)) : b \in bases}
    \cup {Put(b, key, n) : b \in bases,
                           n \in WithEvidence(Dict([stage |-> Str(<<"s">>)]),
                                              NestedEvidenceValues)}

\* The JSON objects an agent may parse out of an LLM answer.
ParsedObjects ==
    WithNested(
        WithNested(
            WithNested(WithEvidence(Dict([stage |-> Str(<<"T2a">>)]), EvidenceValues),
                       "tumor"),
            "nodes"),
        "metastasis")

\* The dict the caller still holds after normalize_agent_response ran on its
\* shallow copy (analyze, line 64): the copy took the new top-level values,
\* the nested dicts are shared and were changed in place.
CallerDictAfter(data) ==
    NormalizeNested(NormalizeNested(NormalizeNested(data, "tumor"), "nodes"),
                    "metastasis")

InitNormalize ==
    /\ runs = {}
    /\ InitWith({1}, RunArgs)
    /\ response_text \in {TextOf(doc) : doc \in ParsedObjects}
    /\ result_dict = Null
    /\ normalized = <<>>

\* analyze, lines 57-64: result_dict = json.loads(response_text), then
\* normalize_agent_response(result_dict.copy()).
NormalizeParsed ==
    /\ normalized = <<>>
    /\ normalized' = <<normalize_agent_response(response_text.doc)>>
    /\ result_dict' = CallerDictAfter(response_text.doc)
    /\ UNCHANGED << response_text, runs, settings, args, rpc, state, running,
                    node_out, agent, route, edge_state, result, node_runs,
                    analyze_calls, produced, outcome >>

\* normalize_agent_response is applied to what it returned before.
NormalizeAgain ==
    /\ normalized # <<>>
    /\ Len(normalized) < MaxApplications
    /\ normalized' = Append(normalized,
                            normalize_agent_response(normalized[Len(normalized)]))
    /\ UNCHANGED << response_text, result_dict, runs, settings, args, rpc,
                    state, running, node_out, agent, route, edge_state, result,
                    node_runs, analyze_calls, produced, outcome >>

NextNormalize == NormalizeParsed \/ NormalizeAgain

SpecNormalize == InitNormalize /\ [][NextNormalize]_vars

\* ------------------------------------------------------------------ properties
Stages == {"t_agent", "n_agent", "m_agent"}

\* graph.invoke returned its final state to run, and run has returned.
Returned(r) == rpc[r] = "done" /\ IsDict(state[r])

Started(r, a) == node_runs[r][a] > 0
Finished(r, a) == node_runs[r][a] > 0 /\ a \notin running[r]
Complete(r) == \A a \in Stages : Truthy(produced[r][a])

Success(r) == result[r].d["success"] = Bool(TRUE)
Partial(r, a) == result[r].d["partial_results"].d[Slot(a)]

\* C1: the Compiler's analyze is invoked, and an LLM call made for it, only
\* when the Tumor, Node and Metastasis results are all present; when one of
\* them is absent at the join the Compiler is never invoked.
C1_CompilerNeedsAllResults ==
    \A r \in runs :
        /\ (\/ analyze_calls[r]["compiler"] > 0
            \/ agent[r]["compiler"].pc # "idle"
            \/ agent[r]["compiler"].llm_calls > 0) => Complete(r)
        /\ agent[r]["compiler"].pc # "idle" => All(Components(state[r]))
        /\ (route[r] # "none" /\ ~Complete(r)) =>
               /\ analyze_calls[r]["compiler"] = 0
               /\ agent[r]["compiler"] = AgentIdle

\* A run that reached the join with the Tumor result absent and has returned.
C1_Witness ==
    \E r \in runs :
        /\ Returned(r) /\ route[r] = END
        /\ ~Truthy(produced[r]["t_agent"]) /\ Truthy(produced[r]["m_agent"])

\* C2: a run that reaches the join with one of the three results absent
\* ends with the error field set and returns success = false with a
\* non-empty error.
C2_AbsentResultIsReported ==
    \A r \in runs :
        (Returned(r) /\ route[r] # "none" /\ ~Complete(r)) =>
            /\ Truthy(Get(state[r], "error"))
            /\ ~Success(r)
            /\ Truthy(Get(result[r], "error"))

\* C3: the stages of a run execute one at a time in the order Tumor, Node,
\* Metastasis, Compiler; each starts only after the ones before it ended.
C3_StagesSequential ==
    \A r \in runs :
        /\ Cardinality(running[r]) <= 1
        /\ Started(r, "n_agent") =>
               Finished(r, "t_agent") /\ outcome[r]["t_agent"] # "none"
        /\ Started(r, "m_agent") =>
               Finished(r, "n_agent") /\ outcome[r]["n_agent"] # "none"
        /\ Started(r, "compiler") =>
               \A a \in Stages : Finished(r, a) /\ outcome[r][a] # "none"
        /\ \A a \in Nodes : agent[r][a].pc # "idle" => running[r] = {a}

\* The Compiler stage of a run is executing.
C3_Witness ==
    \E r \in runs : agent[r]["compiler"].pc = "call" /\ agent[r]["compiler"].attempt = 1

\* C4: run never raises; every failed run returns success = false, the error
\* message and partial_results holding the results that were obtained.
C4_FailureHasPartialResults ==
    \A r \in runs :
        (rpc[r] = "done" /\ ~Success(r)) =>
            /\ Truthy(Get(result[r], "error"))
            /\ "partial_results" \in DOMAIN result[r].d
            /\ \A a \in Stages : Partial(r, a) = produced[r][a]

\* C5: an agent with max_retries = N >= 1 that gets only non-JSON text makes
\* exactly N LLM invocations and N parse attempts, then fails with the
\* "Invalid JSON response" ValueError; it never returns.
C5_MalformedTakesNAttempts ==
    \A r \in runs : \A a \in Nodes :
        LET rec == agent[r][a]
            N == settings.max_retries
        IN  (N >= 1 /\ rec.kinds = {"malformed"}) =>
                /\ rec.pc \in {"call", "raised"}
                /\ rec.llm_calls <= N
                /\ rec.pc = "call" =>
                       /\ rec.llm_calls = rec.attempt
                       /\ rec.parse_calls = rec.attempt
                       /\ rec.attempt < N
                /\ rec.pc = "raised" =>
                       /\ rec.llm_calls = N
                       /\ rec.parse_calls = N
                       /\ rec.exc = InvalidJSON(a, JSONDecodeError)

\* The Compiler has failed after three answers that were not JSON.
C5_Witness ==
    \E r \in runs :
        /\ agent[r]["compiler"].pc = "raised"
        /\ agent[r]["compiler"].kinds = {"malformed"}
        /\ agent[r]["compiler"].llm_calls = 3

\* C6: in an agent's analyze loop the wait before attempt k (1-indexed,
\* k > 1) is retry_delay * 2^(k-2): retry_delay, 2*retry_delay, 4*retry_delay, ...
C6_BackoffDoubles ==
    \A r \in runs : \A a \in Nodes :
        LET rec == agent[r][a]
        IN  /\ rec.pc = "call" => Len(rec.sleeps) = rec.attempt
            /\ \A k \in 2..(Len(rec.sleeps) + 1) :
                   rec.sleeps[k - 1] = settings.retry_delay * (2 ^ (k - 2))

\* The Metastasis agent is about to make its fourth attempt after three
\* answers that failed schema validation.
C6_Witness ==
    \E r \in runs :
        /\ agent[r]["m_agent"].pc = "call"
        /\ agent[r]["m_agent"].kinds = {"invalid"}
        /\ Len(agent[r]["m_agent"].sleeps) = 3

UpperOf(laterality) ==
    IF laterality = RIGHT THEN <<"R", "I", "G", "H", "T">> ELSE <<"L", "E", "F", "T">>

\* C7: when the Tumor stage succeeded with laterality left or right, the
\* request the Node agent builds has the laterality directive followed by
\* that laterality in upper case, and has no no-laterality warning.
C7_LateralityThreaded ==
    \A r \in runs :
        LET msg == agent[r]["n_agent"].user_message
            t_result == produced[r]["t_agent"]
        IN  (/\ agent[r]["n_agent"].pc # "idle"
             /\ Truthy(t_result)
             /\ Truthy(t_result.d["laterality"])) =>
                /\ Contains(msg, <<LateralityDirective>>
                                 \o Chars(Str(UpperOf(t_result.d["laterality"]))))
                /\ \A i \in DOMAIN msg : msg[i] # NoLateralityWarning

\* The Node agent is at work in a run whose Tumor result has laterality left.
C7_Witness ==
    \E r \in runs :
        /\ agent[r]["n_agent"].pc = "call"
        /\ Truthy(produced[r]["t_agent"])
        /\ produced[r]["t_agent"].d["laterality"] = LEFT

\* C8: when the Tumor agent fails, the Node and Metastasis stages still run
\* once each, the Compiler is not invoked, and run returns success = false
\* with no tumor result and the node and metastasis results as produced.
C8_TumorFailureStillAdvances ==
    \A r \in runs :
        (Returned(r) /\ outcome[r]["t_agent"] = "raised") =>
            /\ node_runs[r]["n_agent"] = 1 /\ analyze_calls[r]["n_agent"] = 1
            /\ node_runs[r]["m_agent"] = 1 /\ analyze_calls[r]["m_agent"] = 1
            /\ node_runs[r]["compiler"] = 0 /\ analyze_calls[r]["compiler"] = 0
            /\ ~Success(r)
            /\ Partial(r, "t_agent") = Null
            /\ Partial(r, "n_agent") = produced[r]["n_agent"]
            /\ Partial(r, "m_agent") = produced[r]["m_agent"]

\* A returned run whose Tumor agent failed and whose other two stages
\* produced results.
C8_Witness ==
    \E r \in runs :
        /\ Returned(r) /\ outcome[r]["t_agent"] = "raised"
        /\ Truthy(produced[r]["n_agent"]) /\ Truthy(produced[r]["m_agent"])

\* C9: when the three stages succeed and the Compiler fails, run returns
\* success = false with the Compiler's error, no staging, and the three
\* component results unchanged in partial_results.
C9_CompilerFailureSurfaced ==
    \A r \in runs :
        (Returned(r) /\ outcome[r]["compiler"] = "raised") =>
            /\ ~Success(r)
            /\ SubSeq(result[r].d["error"].s, 1, 2) = <<"Staging Compiler", " error: ">>
            /\ Len(result[r].d["error"].s) > 2
            /\ "staging" \notin DOMAIN result[r].d
            /\ state[r].d["final_staging"] = Null
            /\ \A a \in Stages :
                   Truthy(produced[r][a]) /\ Partial(r, a) = produced[r][a]

\* A returned run whose Compiler failed on schema validation.
C9_Witness ==
    \E r \in runs :
        /\ Returned(r) /\ outcome[r]["compiler"] = "raised"
        /\ result[r].d["error"].s[3] = "Staging Compiler"

\* C10: a run that reports success returns exactly success, staging,
\* report_id and patient_id, the staging being the validated result the
\* Compiler returned in this run and the identifiers those passed to run.
C10_SuccessResultExact ==
    \A r \in runs :
        (rpc[r] = "done" /\ Success(r)) =>
            /\ result[r] = Dict([success |-> Bool(TRUE),
                                 staging |-> produced[r]["compiler"],
                                 report_id |-> args[r].report_id,
                                 patient_id |-> args[r].patient_id])
            /\ outcome[r]["compiler"] = "returned"
            /\ Truthy(result[r].d["staging"])

\* ------------------------------------------------------------------ normalizer properties
\* The object the LLM answer parses to, before any normalization.
Parsed == response_text.doc

NestedKeys == {"tumor", "nodes", "metastasis"}

\* C11: normalization is idempotent: applying normalize_agent_response to
\* its own result gives that result again, whatever the evidence values at
\* top level and in the nested tumor, nodes and metastasis objects.
C11_NormalizeIdempotent ==
    \A i \in 2..Len(normalized) : normalized[i] = normalized[i - 1]

\* Normalization was applied twice to an object with a list as top-level
\* evidence and null as the evidence of its nested tumor object.
C11_Witness ==
    /\ Len(normalized) = 2
    /\ "evidence" \in DOMAIN Parsed.d /\ IsList(Parsed.d["evidence"])
    /\ Parsed.d["evidence"].items # <<>>
    /\ "tumor" \in DOMAIN Parsed.d /\ IsDict(Parsed.d["tumor"])
    /\ Get(Parsed.d["tumor"], "evidence") = Null
    /\ "evidence" \in DOMAIN Parsed.d["tumor"].d

\* An item of an evidence list that is empty: null or the empty string.
EmptyItem(v) == IsNull(v) \/ v = Str(<<>>)

\* The text of an item: a string as it is, the number 5 as "5".
ItemText(v) == IF IsStr(v) THEN v.s ELSE <<"5">>

RECURSIVE SpaceJoined(_, _)
\* The first n of the texts, each but the first preceded by one space.
SpaceJoined(texts, n) ==
    IF n = 0 THEN <<>>
    ELSE IF n = 1 THEN texts[1]
    ELSE SpaceJoined(texts, n - 1) \o <<" ">> \o texts[n]

\* What the evidence value v is to become.
Coerced(v) ==
    IF IsList(v)
    THEN LET kept == SelectSeq(v.items, LAMBDA x : ~EmptyItem(x))
             texts == [i \in DOMAIN kept |-> ItemText(kept[i])]
         IN  Str(SpaceJoined(texts, Len(texts)))
    ELSE IF IsNull(v) THEN Str(<<>>)
    ELSE v

\* d has the same keys after normalization and its evidence is coerced.
EvidenceCoerced(before, after) ==
    /\ DOMAIN after.d = DOMAIN before.d
    /\ "evidence" \in DOMAIN before.d =>
           after.d["evidence"] = Coerced(before.d["evidence"])

WithoutEvidence(a) ==
    {d \in LLMDocs(a, <<>>) : IsDict(d) /\ "evidence" \notin DOMAIN d.d}

\* C13: an object without an evidence key still has none after
\* normalization and fails validation with evidence among the violations; a
\* stage agent that only gets such objects never returns: it retries while
\* attempts remain and then fails with the validation-error ValueError that
\* names evidence.
C13_AbsentEvidenceRejected ==
    /\ \A a \in Stages : \A d \in WithoutEvidence(a) :
           /\ "evidence" \notin DOMAIN normalize_agent_response(d).d
           /\ "evidence" \in SchemaErrors(a, normalize_agent_response(d))
    /\ \A r \in runs : \A a \in Stages :
           LET rec == agent[r][a]
               N == settings.max_retries
           IN  rec.kinds = {"no_evidence"} =>
                   /\ rec.pc \in {"call", "raised"}
                   /\ rec.pc = "call" => rec.llm_calls = rec.attempt /\ rec.attempt < N
                   /\ rec.pc = "raised" =>
                          /\ rec.llm_calls = N
                          /\ rec.exc.cls = "ValueError"
                          /\ SubSeq(rec.exc.msg, 1, 2) = <<AgentLabel(a), " validation error: ">>
                          /\ \E i \in DOMAIN rec.exc.msg : rec.exc.msg[i] = "evidence"

\* The Tumor agent has failed after three answers without an evidence key.
C13_Witness ==
    \E r \in runs :
        /\ agent[r]["t_agent"].pc = "raised"
        /\ agent[r]["t_agent"].kinds = {"no_evidence"}
        /\ agent[r]["t_agent"].llm_calls = 3

NonEmptyStr(v) == IsStr(v) /\ v.s # <<>>

\* C14: every result an agent returned after validation has a non-empty
\* string as evidence: the Tumor, Node and Metastasis results and the three
\* results embedded in the Compiler's staging.
C14_EvidenceNonEmpty ==
    \A r \in runs :
        /\ \A a \in Stages :
               Truthy(produced[r][a]) => NonEmptyStr(produced[r][a].d["evidence"])
        /\ Truthy(produced[r]["compiler"]) =>
               \A k \in NestedKeys :
                   NonEmptyStr(produced[r]["compiler"].d[k].d["evidence"])

\* ------------------------------------------------------------------ concurrent runs
\* Everything that belongs to run r.
PerRun(r) ==
    << args[r], rpc[r], state[r], running[r], node_out[r], agent[r], route[r],
       edge_state[r], result[r], node_runs[r], analyze_calls[r], produced[r],
       outcome[r] >>

\* The results a stage agent can return from the answers the service gives
\* to a request about run r's own report.
OwnAnswers(r, a) ==
    LET docs == {d \in LLMDocs(a, UserMessage(a, args[r].report_text, EmptyDict)) :
                    IsDict(d)}
    IN  {ModelDump(a, normalize_agent_response(d)) :
            d \in {x \in docs : SchemaErrors(a, normalize_agent_response(x)) = {}}}

\* Run r's state, requests and result come from its own input and from the
\* answers to its own calls.
OwnOnly(r) ==
    /\ IsDict(state[r]) =>
           /\ state[r].d["report_text"] = args[r].report_text
           /\ state[r].d["report_id"] = args[r].report_id
           /\ state[r].d["patient_id"] = args[r].patient_id
           /\ \A a \in Nodes : state[r].d[Slot(a)] \in {Null, produced[r][a]}
    /\ \A a \in Stages :
           /\ Truthy(produced[r][a]) => produced[r][a] \in OwnAnswers(r, a)
           /\ agent[r][a].pc # "idle" =>
                  ReportOf(agent[r][a].user_message) = args[r].report_text
    /\ agent[r]["compiler"].pc # "idle" =>
           RequestResults(agent[r]["compiler"].user_message)
               = <<produced[r]["t_agent"], produced[r]["n_agent"], produced[r]["m_agent"]>>
    /\ (rpc[r] = "done" /\ IsDict(state[r])) =>
           IF Success(r)
           THEN /\ result[r].d["staging"] = produced[r]["compiler"]
                /\ result[r].d["report_id"] = args[r].report_id
                /\ result[r].d["patient_id"] = args[r].patient_id
           ELSE \A a \in Stages : Partial(r, a) = produced[r][a]

\* C15: two runs executing at once are isolated: a step of one run changes
\* nothing that belongs to the other, and each run's state, requests and
\* result are made of its own input and of the answers to its own LLM calls.
C15_RunsIsolated ==
    /\ [][\A r \in runs : \A q \in runs \ {r} :
              PerRun(r)' = PerRun(r) \/ PerRun(q)' = PerRun(q)]_vars
    /\ [](\A r \in runs : OwnOnly(r))

\* Both runs are in the middle of an LLM call, one in its Compiler stage and
\* one in its Node stage, with different Tumor results.
C15_Witness ==
    /\ Cardinality(runs) = 2
    /\ \E r \in runs : \E q \in runs \ {r} :
           /\ agent[r]["compiler"].pc = "call"
           /\ agent[q]["n_agent"].pc = "call"
           /\ Truthy(produced[r]["t_agent"]) /\ Truthy(produced[q]["t_agent"])
           /\ produced[r]["t_agent"] # produced[q]["t_agent"]

\* ------------------------------------------------------------------ result contents
\* The key of the Compiler's staging that holds the result of stage a.
Component(a) ==
    CASE a = "t_agent" -> "tumor" [] a = "n_agent" -> "nodes" [] a = "m_agent" -> "metastasis"

\* C16: on a successful run the tumor, nodes and metastasis components of
\* the returned staging equal the results the Tumor, Node and Metastasis
\* agents produced in that run and that were sent to the Compiler.
C16_ComponentsEmbeddedByValue ==
    \A r \in runs :
        (rpc[r] = "done" /\ Success(r) /\ Truthy(result[r].d["staging"])) =>
            \A a \in Stages :
                result[r].d["staging"].d[Component(a)] = produced[r][a]

\* The organ systems named by the sites of a Metastasis result.
OrganSystems(sites) == {sites.items[i].d["organ_system"] : i \in DOMAIN sites.items}

\* C17: a Metastasis result with a non-empty list of sites has
\* organ_systems_count equal to the number of distinct organ systems of
\* those sites, and the count is never negative.
C17_OrganSystemsCounted ==
    \A r \in runs :
        LET m_result == produced[r]["m_agent"]
        IN  Truthy(m_result) =>
                /\ m_result.d["organ_systems_count"].n >= 0
                /\ Truthy(m_result.d["metastasis_sites"]) =>
                       m_result.d["organ_systems_count"].n
                           = Cardinality(OrganSystems(m_result.d["metastasis_sites"]))

N_STAGES == {<<"N0">>, <<"N1">>, <<"N2a">>, <<"N2b">>, <<"N3">>}
M_STAGES == {<<"M0">>, <<"M1a">>, <<"M1b">>, <<"M1c1">>, <<"M1c2">>}

\* C18: every result the Node agent returns has a stage among N0, N1, N2a,
\* N2b, N3 and every result the Metastasis agent returns has a stage among
\* M0, M1a, M1b, M1c1, M1c2.
C18_StageCodesEnumerated ==
    \A r \in runs :
        /\ Truthy(produced[r]["n_agent"]) =>
               produced[r]["n_agent"].d["stage"].s \in N_STAGES
        /\ Truthy(produced[r]["m_agent"]) =>
               produced[r]["m_agent"].d["stage"].s \in M_STAGES

\* ------------------------------------------------------------------ retry properties
\* C19: an agent with max_retries = N whose every LLM invocation fails with a
\* transport error makes exactly N LLM invocations and then raises that
\* transport error.
C19_TransportFailureTakesNCalls ==
    \A r \in runs : \A a \in Nodes :
        LET rec == agent[r][a]
            N == settings.max_retries
        IN  (N >= 1 /\ rec.kinds = {"transport"}) =>
                /\ rec.llm_calls <= N
                /\ rec.pc \in {"call", "raised"}
                /\ rec.pc = "raised" => rec.llm_calls = N /\ rec.exc = TransportError

\* An agent's step in which an object was validated and rejected.
ValidationFailedStep(r, a) ==
    /\ agent[r][a]'.validate_calls = agent[r][a].validate_calls + 1
    /\ agent[r][a]'.pc # "returned"

\* C20: when a parsed and normalized object fails validation and attempts
\* remain, the agent waits retry_delay * 2^attempt and makes the next
\* attempt with a fresh LLM invocation (an object is validated once, in the
\* step that received it); when it was the last attempt the agent raises
\* the validation-error ValueError and invokes the LLM no more.
C20_ValidationFailureRetriesCall ==
    [][\A r \in runs : \A a \in Nodes :
          LET rec == agent[r][a]
              N == settings.max_retries
          IN  /\ ValidationFailedStep(r, a) =>
                     /\ agent[r][a]'.llm_calls = rec.llm_calls + 1
                     /\ IF rec.attempt < N - 1
                        THEN /\ agent[r][a]'.pc = "call"
                             /\ agent[r][a]'.attempt = rec.attempt + 1
                             /\ agent[r][a]'.llm_attempt = 0
                             /\ agent[r][a]'.sleeps =
                                    Append(rec.sleeps, settings.retry_delay * (2 ^ rec.attempt))
                        ELSE /\ agent[r][a]'.pc = "raised"
                             /\ agent[r][a]'.exc.cls = "ValueError"
                             /\ SubSeq(agent[r][a]'.exc.msg, 1, 2)
                                    = <<AgentLabel(a), " validation error: ">>
              /\ agent[r][a]'.validate_calls > rec.validate_calls =>
                     agent[r][a]'.llm_calls > rec.llm_calls
              /\ rec.pc = "raised" => agent[r][a]'.llm_calls <= rec.llm_calls
      ]_vars

\* The Compiler is about to make its second attempt after one answer that
\* failed validation.
C20_Witness ==
    \E r \in runs :
        /\ agent[r]["compiler"].pc = "call"
        /\ agent[r]["compiler"].attempt = 1
        /\ agent[r]["compiler"].validate_calls = 1
        /\ agent[r]["compiler"].kinds = {"invalid"}

\* The step in which agent a of run r raises out of analyze.
Surfaces(r, a) == agent[r][a].pc = "call" /\ agent[r][a]'.pc = "raised"

\* C21: whatever the failures of the earlier attempts were, an agent raises
\* only when its max_retries-th attempt has failed, and what it raises is of
\* the class of that last failure: the invalid-JSON error after text that
\* does not parse, the validation error after an object that fails
\* validation, the transport exception after a failed call.
C21_LastFailureSurfaces ==
    [][\A r \in runs : \A a \in Nodes :
          Surfaces(r, a) =>
              /\ agent[r][a].attempt = settings.max_retries - 1
              /\ agent[r][a]'.attempt = agent[r][a].attempt
              /\ LLMReturnsMalformed(r, a) =>
                     agent[r][a]'.exc = InvalidJSON(a, JSONDecodeError)
              /\ agent[r][a]'.validate_calls > agent[r][a].validate_calls =>
                     /\ agent[r][a]'.exc.cls = "ValueError"
                     /\ SubSeq(agent[r][a]'.exc.msg, 1, 3)
                            = <<AgentLabel(a), " validation error: ", "validation errors for ">>
              /\ LLMRaises(r, a) => agent[r][a]'.exc = TransportError
      ]_vars

\* An agent raised the transport exception of its third attempt after
\* earlier attempts that failed in other ways.
C21_Witness ==
    \E r \in runs : \E a \in Nodes :
        /\ agent[r][a].pc = "raised"
        /\ agent[r][a].attempt = 2
        /\ agent[r][a].kinds = {"mixed"}
        /\ agent[r][a].parse_calls > agent[r][a].validate_calls
        /\ agent[r][a].validate_calls > 0
        /\ agent[r][a].exc = TransportError

\* ------------------------------------------------------------------ orchestration properties
\* The stages in the order they run.
StageOrder == <<"t_agent", "n_agent", "m_agent">>

\* The first stage of run r whose agent raised; 0 when none did.
FirstFailed(r) ==
    IF \E i \in 1..3 : outcome[r][StageOrder[i]] = "raised"
    THEN CHOOSE i \in 1..3 :
            /\ outcome[r][StageOrder[i]] = "raised"
            /\ \A j \in 1..(i - 1) : outcome[r][StageOrder[j]] # "raised"
    ELSE 0

\* C22: when several stage agents fail in one run, the error in the run's
\* result is the error of the first agent that failed.
C22_FirstErrorReported ==
    \A r \in runs :
        (Returned(r) /\ FirstFailed(r) # 0) =>
            /\ ~Success(r)
            /\ result[r].d["error"].s[1] = AgentLabel(StageOrder[FirstFailed(r)])

\* C23: the workflow never runs a stage again: in a run each of the Tumor,
\* Node and Metastasis agents' analyze is invoked once and the Compiler's
\* at most once, whether the stage succeeded or failed.
C23_StagesRunOnce ==
    \A r \in runs :
        /\ \A a \in Nodes : node_runs[r][a] <= 1 /\ analyze_calls[r][a] <= 1
        /\ Returned(r) =>
               \A a \in Stages :
                   /\ node_runs[r][a] = 1 /\ analyze_calls[r][a] = 1
                   /\ outcome[r][a] \in {"returned", "raised"}

\* A returned run whose Tumor agent succeeded and whose Node agent failed.
C23_Witness ==
    \E r \in runs :
        /\ Returned(r)
        /\ outcome[r]["t_agent"] = "returned" /\ Truthy(produced[r]["t_agent"])
        /\ outcome[r]["n_agent"] = "raised"

\* ------------------------------------------------------------------ request properties
\* How many segments of msg equal seg.
Occurrences(msg, seg) == Cardinality({i \in DOMAIN msg : msg[i] = seg})

\* Position of the report text in msg.
ReportAt(msg) == CHOOSE i \in DOMAIN msg : msg[i].k = "report"

\* msg has the one directive wanted and not the other, before the report.
OneDirective(msg, wanted, other) ==
    /\ Occurrences(msg, wanted) = 1
    /\ Occurrences(msg, other) = 0
    /\ IndexOf(msg, wanted) < ReportAt(msg)

\* The contexts a direct caller of NAgent.analyze may pass that hold no
\* laterality: none, an empty one, a null or an empty value.
NoLateralityContexts ==
    { Null, EmptyDict, Dict([tumor_laterality |-> Null]),
      Dict([tumor_laterality |-> Str(<<>>)]) }

\* C24: the Node agent's request has exactly one of the laterality directive
\* and the no-laterality warning, placed before the report text; it is the
\* warning whenever no laterality is available: the Tumor stage failed, its
\* result has a null laterality, or the context holds a null value.
C24_OneLateralityDirective ==
    /\ \A ctx \in NoLateralityContexts : \A x \in RunArgs :
           OneDirective(NUserMessage(x.report_text, ctx),
                        NoLateralityWarning, LateralityDirective)
    /\ \A ctx \in {Dict([tumor_laterality |-> l]) : l \in {LEFT, RIGHT}} :
           \A x \in RunArgs :
               OneDirective(NUserMessage(x.report_text, ctx),
                            LateralityDirective, NoLateralityWarning)
    /\ \A r \in runs :
           LET msg == agent[r]["n_agent"].user_message
               t_result == produced[r]["t_agent"]
           IN  agent[r]["n_agent"].pc # "idle" =>
                   IF Truthy(t_result) /\ Truthy(t_result.d["laterality"])
                   THEN OneDirective(msg, LateralityDirective, NoLateralityWarning)
                   ELSE OneDirective(msg, NoLateralityWarning, LateralityDirective)

\* The Node agent is at work after the Tumor agent returned a result whose
\* laterality is null.
C24_Witness ==
    \E r \in runs :
        /\ agent[r]["n_agent"].pc = "call"
        /\ Truthy(produced[r]["t_agent"])
        /\ produced[r]["t_agent"].d["laterality"] = Null

\* ------------------------------------------------------------------ wait properties
\* C25: every wait between two LLM invocations of one analyze call is
\* retry_delay * 2^a, a being the zero-based index of the attempt that just
\* failed, also after a transport failure or an empty response: the waits
\* of analyze's loop by its attempt, the waits inside call_llm by the
\* index of the invocation within call_llm or by analyze's attempt.
C25_EveryWaitExponential ==
    \A r \in runs : \A a \in Nodes :
        LET rec == agent[r][a]
            base == settings.retry_delay
        IN  /\ \A k \in DOMAIN rec.sleeps : rec.sleeps[k] = base * (2 ^ (k - 1))
            /\ \A k \in DOMAIN rec.llm_sleeps :
                   rec.llm_sleeps[k] \in {base * (2 ^ (k - 1)), base * (2 ^ rec.attempt)}

\* ------------------------------------------------------------------ normalizer frame
\* after is before but for its evidence value, and that only when it was a
\* list or null.
OnlyEvidenceChanged(before, after) ==
    /\ DOMAIN after.d = DOMAIN before.d
    /\ \A k \in DOMAIN before.d \ ({"evidence"} \cup NestedKeys) :
           after.d[k] = before.d[k]
    /\ ("evidence" \in DOMAIN before.d
            /\ ~IsList(before.d["evidence"]) /\ ~IsNull(before.d["evidence"])) =>
           after.d["evidence"] = before.d["evidence"]

\* C26: normalization changes nothing but evidence values: every other key
\* keeps its value at top level and inside the nested tumor, nodes and
\* metastasis objects, a nested value that is not an object is kept, an
\* evidence that is neither a list nor null is kept, and no key is added.
C26_OnlyEvidenceChanges ==
    normalized # <<>> =>
        LET out == normalized[1]
        IN  /\ OnlyEvidenceChanged(Parsed, out)
            /\ \A k \in NestedKeys \cap DOMAIN Parsed.d :
                   IF IsDict(Parsed.d[k])
                   THEN /\ IsDict(out.d[k])
                        /\ OnlyEvidenceChanged(Parsed.d[k], out.d[k])
                        /\ \A j \in NestedKeys \cap DOMAIN Parsed.d[k].d :
                               out.d[k].d[j] = Parsed.d[k].d[j]
                   ELSE out.d[k] = Parsed.d[k]

\* Normalization was applied to an object whose evidence is a number, whose
\* nodes value is a string and whose tumor object has no evidence key.
C26_Witness ==
    /\ normalized # <<>>
    /\ Get(Parsed, "evidence") = Num(5)
    /\ Get(Parsed, "nodes") = Str(<<"x">>)
    /\ IsDict(Get(Parsed, "tumor"))
    /\ "evidence" \notin DOMAIN Parsed.d["tumor"].d

\* C27: normalization does not modify the object it is given: after an
\* agent has normalized a parsed answer, the parsed object and its nested
\* tumor, nodes and metastasis objects still hold the evidence values that
\* were parsed.
C27_ParsedObjectUntouched ==
    normalized # <<>> => result_dict = Parsed

\* ------------------------------------------------------------------ state frame
\* The state dict after differs from before at most in node a's own slot
\* and the error field, and no filled slot of before was changed.
OwnSlotOnly(a, before, after) ==
    /\ DOMAIN after.d = DOMAIN before.d
    /\ \A k \in DOMAIN before.d \ {Slot(a), "error"} : after.d[k] = before.d[k]
    /\ \A b \in Nodes :
           Truthy(before.d[Slot(b)]) => after.d[Slot(b)] = before.d[Slot(b)]

\* C28: each stage changes only its own slot: what a node returns, and the
\* graph state after its step, differ from the state before at most in the
\* node's own result slot and the error field; the report text, the
\* identifiers and the other slots are unchanged, and a filled slot is never
\* cleared or replaced.
C28_OwnSlotOnly ==
    [][\A r \in runs :
          /\ \A a \in Nodes :
                 (node_out[r][a] = Null /\ node_out[r][a]' # Null) =>
                     OwnSlotOnly(a, state[r], node_out[r][a]')
          /\ (IsDict(state[r]) /\ IsDict(state[r]') /\ state[r]' # state[r]) =>
                 \E a \in running[r] : OwnSlotOnly(a, state[r], state[r]')
      ]_vars

\* The Compiler's staging has been stored in a graph state that holds the
\* three stage results.
C28_Witness ==
    \E r \in runs :
        /\ rpc[r] = "invoke" /\ IsDict(state[r])
        /\ Truthy(state[r].d["final_staging"])
        /\ \A a \in Stages : Truthy(state[r].d[Slot(a)])

\* ------------------------------------------------------------------ loop exits
\* C29: an agent returns as soon as an attempt gives an object that parses,
\* normalizes and validates: the step that validates it makes no wait and
\* ends analyze, and a returned agent invokes the LLM no more; an agent whose
\* first answer is valid has made one LLM invocation and no wait, so that a
\* run of four such agents makes four invocations and no wait.
C29_ReturnsOnFirstSuccess ==
    /\ [](\A r \in runs :
             /\ \A a \in Nodes :
                    LET rec == agent[r][a]
                    IN  rec.kinds = {"valid"} =>
                            /\ rec.pc = "returned" /\ Truthy(rec.ret)
                            /\ rec.llm_calls = 1
                            /\ rec.sleeps = <<>> /\ rec.llm_sleeps = <<>>
             /\ (Returned(r) /\ Success(r) /\ Truthy(result[r].d["staging"])) =>
                    \A a \in Nodes : analyze_calls[r][a] = 1)
    /\ [][\A r \in runs : \A a \in Nodes :
              LET rec == agent[r][a]
              IN  /\ (rec.pc = "call" /\ agent[r][a]'.pc = "returned") =>
                         /\ agent[r][a]'.llm_calls = rec.llm_calls + 1
                         /\ agent[r][a]'.validate_calls = rec.validate_calls + 1
                         /\ agent[r][a]'.sleeps = rec.sleeps
                         /\ agent[r][a]'.llm_sleeps = rec.llm_sleeps
                         /\ Truthy(agent[r][a]'.ret)
                  /\ (rec.pc = "call" /\ agent[r][a]'.validate_calls > rec.validate_calls
                          /\ agent[r][a]'.exc = NoExc /\ agent[r][a]'.attempt = rec.attempt) =>
                         agent[r][a]'.pc = "returned"
                  /\ rec.pc = "returned" => agent[r][a]' \in {rec, AgentIdle}
       ]_vars

\* The Compiler returned on its first answer in a run whose three stage
\* agents produced results.
C29_Witness ==
    \E r \in runs :
        /\ agent[r]["compiler"].pc = "returned"
        /\ agent[r]["compiler"].kinds = {"valid"}
        /\ agent[r]["compiler"].llm_calls = 1
        /\ Complete(r)

\* C30: no wait follows the last failed attempt: an agent that raises after
\* max_retries = N attempts has made N - 1 waits in its own loop and raises
\* in the step of its N-th failure; call_llm's loop, too, has waited as often
\* as it has failed before and never after its N-th failure.
C30_NoWaitAfterLastAttempt ==
    \A r \in runs : \A a \in Nodes :
        LET rec == agent[r][a]
            N == settings.max_retries
        IN  /\ rec.pc = "raised" =>
                   /\ rec.attempt = N - 1
                   /\ Len(rec.sleeps) = N - 1
            /\ rec.pc = "call" =>
                   /\ Len(rec.sleeps) = rec.attempt /\ rec.attempt < N
                   /\ Len(rec.llm_sleeps) = rec.llm_attempt /\ rec.llm_attempt < N
            /\ rec.pc = "raised" => Len(rec.llm_sleeps) <= N - 1

\* The Node agent has raised after three attempts.
C30_Witness ==
    \E r \in runs :
        /\ agent[r]["n_agent"].pc = "raised"
        /\ agent[r]["n_agent"].attempt = 2
        /\ Len(agent[r]["n_agent"].sleeps) = 2

\* ------------------------------------------------------------------ run invariants
\* The graph states a run holds: the channels' state, what each node of the
\* current step returned, and the snapshot given to the conditional edge.
HeldStates(r) ==
    { st \in {state[r], edge_state[r]} \cup {node_out[r][a] : a \in Nodes} : IsDict(st) }

\* C31: in every state of a run, final_staging is present only if t_result,
\* n_result and m_result are all present and error is absent; and the result
\* of a run never has both a staging and an error.
C31_StagingExcludesError ==
    \A r \in runs :
        /\ \A st \in HeldStates(r) :
               Get(st, "final_staging") # Null =>
                   /\ \A a \in Stages : Get(st, Slot(a)) # Null
                   /\ Get(st, "error") = Null
        /\ (rpc[r] = "done" /\ Get(result[r], "staging") # Null) =>
               /\ "error" \notin DOMAIN result[r].d
               /\ Get(state[r], "error") = Null

\* A run has returned a staging, and ended with the staging in its state.
C31_Witness ==
    \E r \in runs :
        /\ Returned(r)
        /\ Get(state[r], "final_staging") # Null
        /\ Get(result[r], "staging") = Get(state[r], "final_staging")
        /\ Get(state[r], "error") = Null

\* C32: for every max_retries, 0 included, a result with success = true has
\* in staging a present object that validates as the combined staging.
C32_SuccessCarriesStaging ==
    \A r \in runs :
        (rpc[r] = "done" /\ Success(r)) =>
            /\ IsDict(Get(result[r], "staging"))
            /\ SchemaErrors("compiler", result[r].d["staging"]) = {}

\* ------------------------------------------------------------------ empty responses
\* A failed invocation inside call_llm: before the last attempt of its loop
\* it waits and stays in the loop; at the last attempt the exception e
\* enters analyze's handler, which raises it or starts its next attempt.
FailedInvocation(before, after, e) ==
    /\ after.llm_calls = before.llm_calls + 1
    /\ after.parse_calls = before.parse_calls
    /\ after.validate_calls = before.validate_calls
    /\ after.ret = Null
    /\ IF before.llm_attempt < settings.max_retries - 1
       THEN /\ after.pc = "call"
            /\ after.attempt = before.attempt
            /\ after.sleeps = before.sleeps
            /\ after.llm_attempt = before.llm_attempt + 1
            /\ Len(after.llm_sleeps) = Len(before.llm_sleeps) + 1
       ELSE \/ after.pc = "raised" /\ after.exc = e
            \/ /\ after.pc = "call"
               /\ after.attempt = before.attempt + 1
               /\ after.llm_attempt = 0

\* C33: with max_retries >= 1 an empty response is a failed invocation,
\* retried as a transport error is, and never parsed: only a non-empty text
\* is returned by call_llm and handed to json.loads.
C33_EmptyResponseIsFailure ==
    /\ [](\A r \in runs : \A a \in Nodes :
             agent[r][a].kinds \subseteq {"empty"} =>
                 /\ agent[r][a].parse_calls = 0
                 /\ agent[r][a].validate_calls = 0
                 /\ agent[r][a].pc # "returned" \/ settings.max_retries = 0
                 /\ agent[r][a].pc = "raised" => agent[r][a].exc = EmptyResponse)
    /\ [][\A r \in runs : \A a \in Nodes :
              /\ LLMReturnsEmpty(r, a) =>
                     FailedInvocation(agent[r][a], agent[r][a]', EmptyResponse)
              /\ LLMRaises(r, a) =>
                     FailedInvocation(agent[r][a], agent[r][a]', TransportError)
              /\ agent[r][a]'.parse_calls > agent[r][a].parse_calls =>
                     LLMReturnsMalformed(r, a) \/ LLMReturnsJSON(r, a)
       ]_vars

\* The Metastasis agent got an empty response and is invoking the LLM again.
C33_Witness ==
    \E r \in runs :
        /\ agent[r]["m_agent"].pc = "call"
        /\ agent[r]["m_agent"].kinds = {"empty"}
        /\ agent[r]["m_agent"].llm_attempt = 1
        /\ agent[r]["m_agent"].parse_calls = 0

\* ------------------------------------------------------------------ termination
\* What one analyze call may spend: max_retries attempts of its own loop,
\* each with at most max_retries LLM invocations, and fewer waits than
\* attempts in either loop.
WithinBudget(rec) ==
    LET N == settings.max_retries
    IN  /\ rec.attempt <= N /\ rec.llm_attempt <= N
        /\ rec.llm_calls <= N * N
        /\ Len(rec.sleeps) <= N /\ Len(rec.llm_sleeps) <= N

\* C34: when every LLM invocation eventually returns or raises, every run
\* that started reaches its result, success or failure, whatever the LLM
\* answers; each node runs at most once and each agent stays within a finite
\* budget of invocations and waits, so that no stage retries forever.
C34_RunTerminates ==
    /\ \A r \in {"r1"} : (rpc[r] = "invoke") ~> (rpc[r] = "done" /\ IsDict(result[r]))
    /\ [](\A r \in runs : \A a \in Nodes :
             /\ node_runs[r][a] <= 1 /\ analyze_calls[r][a] <= 1
             /\ WithinBudget(agent[r][a]))

\* A run has returned after all three stage agents exhausted their attempts.
C34_Witness ==
    \E r \in runs :
        /\ rpc[r] = "done" /\ IsDict(result[r])
        /\ \A a \in Stages : outcome[r][a] = "raised"
        /\ settings.max_retries = MaxRetries

====
